---- MODULE Spec2Model ----
(***************************************************************************)
(* A model of src/kalman.py: class KalmanFilter with its four operations   *)
(* evolve, estimate, predict and rewind.                                   *)
(*                                                                         *)
(* Numbers are exact rationals <<p, q>> (q > 0, lowest terms), so that the *)
(* matrix inverse of scipy.linalg.inv is computed, not assumed; vectors    *)
(* are sequences of rationals and matrices sequences of rows.  numpy       *)
(* arrays that the instance keeps (self.states, self.obs) live in a heap   *)
(* and are named by reference, so that rebinding an attribute and writing  *)
(* through it are different things, as they are in Python.                 *)
(***************************************************************************)
EXTENDS Integers, Sequences, FiniteSets, TLC

\* ------------------------------------------------------------ bounds
\* Largest step count N (evolve, estimate) and horizon k (predict, rewind).
MaxN == 3
\* Calls made on the instance in one run.
MaxCalls == 2
\* Threads that call the instance.
NThreads == 2

\* ------------------------------------------------- program constants
\* np.zeros(4): the length of the state noise drawn by evolve.
StateDim == 4
\* np.empty((2,N)), np.zeros(2), x0[:2]: the rows of an observation.
ObsDim == 2

\* --------------------------------------------------------- rationals
Abs(a) == IF a < 0 THEN -a ELSE a

RECURSIVE GCD(_, _)
GCD(a, b) == IF b = 0 THEN a ELSE GCD(b, a % b)

\* The rational p/q in lowest terms with a positive denominator.
Rat(p, q) ==
    LET g == GCD(Abs(p), Abs(q))
        s == IF q < 0 THEN -1 ELSE 1
    IN  <<(s * p) \div g, (s * q) \div g>>

Whole(a) == <<a, 1>>
Zero == Whole(0)
One == Whole(1)

\* Sums and products cancel common factors before they multiply, which
\* keeps intermediate values small; the results are those of p/q arithmetic.
RAdd(a, b) ==
    LET g == GCD(a[2], b[2])
    IN  Rat(a[1] * (b[2] \div g) + b[1] * (a[2] \div g), (a[2] \div g) * b[2])
RNeg(a) == <<-a[1], a[2]>>
RSub(a, b) == RAdd(a, RNeg(b))
RMul(a, b) ==
    LET g == GCD(Abs(a[1]), b[2])
        h == GCD(Abs(b[1]), a[2])
    IN  <<(a[1] \div g) * (b[1] \div h), (a[2] \div h) * (b[2] \div g)>>
\* a / b, for b # 0.
RDiv(a, b) == RMul(a, IF b[1] < 0 THEN <<-b[2], -b[1]>> ELSE <<b[2], b[1]>>)

\* ------------------------------------------------ vectors and matrices
\* The sequence f[1], ..., f[n], each element computed once.
RECURSIVE ToSeq(_, _)
ToSeq(f, n) == IF n = 0 THEN <<>> ELSE Append(ToSeq(f, n - 1), f[n])

\* f[1] + ... + f[n]
RECURSIVE SumTo(_, _)
SumTo(f, n) == IF n = 0 THEN Zero ELSE RAdd(SumTo(f, n - 1), f[n])

Rows(M) == Len(M)
Cols(M) == Len(M[1])

VAdd(v, w) == ToSeq([j \in 1..Len(v) |-> RAdd(v[j], w[j])], Len(v))
VSub(v, w) == ToSeq([j \in 1..Len(v) |-> RSub(v[j], w[j])], Len(v))
Dot(v, w) == SumTo([j \in 1..Len(v) |-> RMul(v[j], w[j])], Len(v))

\* M @ v
MatVec(M, v) == ToSeq([r \in 1..Rows(M) |-> Dot(M[r], v)], Rows(M))
\* M.T
Transpose(M) ==
    ToSeq([c \in 1..Cols(M) |-> ToSeq([r \in 1..Rows(M) |-> M[r][c]], Rows(M))],
          Cols(M))
\* A @ B
MatMul(A, B) ==
    LET Bt == Transpose(B)
    IN  ToSeq([r \in 1..Rows(A) |->
                 ToSeq([c \in 1..Rows(Bt) |-> Dot(A[r], Bt[c])], Rows(Bt))],
              Rows(A))
MAdd(A, B) == ToSeq([r \in 1..Rows(A) |-> VAdd(A[r], B[r])], Rows(A))
MSub(A, B) == ToSeq([r \in 1..Rows(A) |-> VSub(A[r], B[r])], Rows(A))
ZeroVec(n) == ToSeq([j \in 1..n |-> Zero], n)
ZeroMat(n) == ToSeq([r \in 1..n |-> ZeroVec(n)], n)
\* np.eye(n)
Eye(n) ==
    ToSeq([r \in 1..n |-> ToSeq([c \in 1..n |-> IF r = c THEN One ELSE Zero], n)], n)

\* s without its j-th element.
Drop(s, j) ==
    ToSeq([t \in 1..(Len(s) - 1) |-> IF t < j THEN s[t] ELSE s[t + 1]], Len(s) - 1)
\* M without row r and column c.
Minor(M, r, c) ==
    LET rest == Drop(M, r)
    IN  ToSeq([a \in 1..Len(rest) |-> Drop(rest[a], c)], Len(rest))

\* The determinant, by expansion along the first row.
RECURSIVE Det(_)
Det(M) ==
    IF Rows(M) = 1 THEN M[1][1]
    ELSE SumTo([c \in 1..Rows(M) |->
                  RMul(IF c % 2 = 1 THEN M[1][c] ELSE RNeg(M[1][c]),
                       Det(Minor(M, 1, c)))],
               Rows(M))

\* scipy.linalg.inv raises LinAlgError("singular matrix") exactly then.
Singular(M) == Det(M) = Zero

Cofactor(M, r, c) ==
    LET d == IF Rows(M) = 1 THEN One ELSE Det(Minor(M, r, c))
    IN  IF (r + c) % 2 = 0 THEN d ELSE RNeg(d)

\* The inverse of a non-singular M: the transposed cofactors over Det(M).
inv(M) ==
    LET d == Det(M)
        n == Rows(M)
    IN  ToSeq([r \in 1..n |-> ToSeq([c \in 1..n |-> RDiv(Cofactor(M, c, r), d)], n)], n)

\* scipy.linalg.norm of a matrix is the Frobenius norm, the square root of
\* the sum of the squared entries; the root is kept symbolic.
SumSq(M) == SumTo([r \in 1..Rows(M) |-> Dot(M[r], M[r])], Rows(M))
norm(M) == [sqrt |-> SumSq(M)]

\* ------------------------------------------------------------ inputs
V4(a, b, c, d) == <<Whole(a), Whole(b), Whole(c), Whole(d)>>
V2(a, b) == <<Whole(a), Whole(b)>>

\* The observation model of the projectile: the two position components.
HPos == <<V4(1, 0, 0, 0), V4(0, 1, 0, 0)>>
\* An observation model that is not the projection on the first two components.
HMix == <<V4(0, 1, 0, 0), V4(1, 0, 1, 0)>>

\* The transition model of the projectile, with its time step of 1/10.
FProjectile ==
    << <<One, Zero, Rat(1, 10), Zero>>, <<Zero, One, Zero, Rat(1, 10)>>,
       V4(0, 0, 1, 0), V4(0, 0, 0, 1) >>
\* An invertible transition model whose inverse is not an integer matrix.
FDouble == <<V4(2, 0, 1, 0), V4(0, 1, 0, 1), V4(0, 0, 1, 0), V4(0, 0, 0, 1)>>
\* A transition model that is not invertible.
FSingular == <<V4(1, 0, 1, 0), V4(0, 1, 0, 1), V4(0, 0, 0, 0), V4(0, 0, 0, 1)>>

\* The systems a KalmanFilter is constructed with: (F, Q, H, R, u).
\* The projectile, without noise.
Projectile ==
    [F |-> FProjectile, Q |-> ZeroMat(StateDim), H |-> HPos,
     R |-> ZeroMat(ObsDim), u |-> <<Zero, Zero, Zero, Rat(-49, 50)>>]
\* A system with both noises.
Noisy ==
    [F |-> FDouble, Q |-> Eye(StateDim), H |-> HMix,
     R |-> Eye(ObsDim), u |-> V4(1, 0, 0, -1)]
\* A system that cannot be rewound.
Stuck ==
    [F |-> FSingular, Q |-> ZeroMat(StateDim), H |-> HPos,
     R |-> ZeroMat(ObsDim), u |-> V4(0, 1, 0, -1)]
Systems == {Projectile, Noisy, Stuck}

\* Initial states and state estimates.
Xs == {V4(0, 0, 300, 600), V4(1, 2, -1, 3)}
\* Initial error covariances.
P0s == {ZeroMat(StateDim), Eye(StateDim)}
\* Observation sequences of N columns: a track at rest and a moving one.
Zs(N) == {ToSeq([c \in 1..N |-> V2(b * c, 61 * b - c)], N) : b \in {0, 30}}
\* Candidate draws of the two noise vectors.
StateNoises == {ZeroVec(StateDim), V4(1, 0, -2, 0)}
ObsNoises == {ZeroVec(ObsDim), V2(-1, 3)}

\* np.random.multivariate_normal(0, C): a component of zero variance is
\* drawn as exactly zero; any other component is unconstrained.
NoiseSupport(C, candidates) ==
    {v \in candidates : \A j \in 1..Len(v) : C[j][j] = Zero => v[j] = Zero}

\* ------------------------------------------------------------- state
Threads == 1..NThreads
\* The thread of a single-threaded program.
Main == CHOOSE t \in Threads : \A o \in Threads : t <= o
\* The calls of a program that makes a single call.
CallsOfOne == Cardinality({Main})

VARIABLES
    self,       \* the KalmanFilter instance: F, Q, H, R, u, states, obs
    heap,       \* the arrays allocated by evolve, by reference 1..Len(heap)
    frames,     \* per thread, the call it is running: arguments, locals, pc
    held,       \* the evolve results the caller has kept, as returned
    predicted,  \* the predict results the caller has kept
    calls,      \* the calls made so far
    budget      \* the calls the program makes

vars == <<self, heap, frames, held, predicted, calls, budget>>

\* A column of np.empty that nothing has been written to.
Uninit == <<>>
\* What a read of such a column may yield.
Garbage == Xs

NoView == [view |-> FALSE, val |-> <<>>, ref |-> 0, col |-> 0]
NoResult == [out |-> <<>>, norms |-> <<>>, states |-> 0, obs |-> 0]

IdleFrame ==
    [op |-> "none", pc |-> "idle",
     x |-> <<>>, k |-> 0, P |-> <<>>, z |-> <<>>,
     x0 |-> NoView, P0 |-> <<>>, P1 |-> <<>>, covs |-> <<>>, i |-> 0,
     out |-> <<>>, norms |-> <<>>, draws |-> <<>>, ret |-> NoResult]

\* Column i (counted from 0, as the code counts) of array a.
Col(a, i) == a[i + 1]
SetCol(a, i, v) == [a EXCEPT ![i + 1] = v]
\* Whether a[:, i] is a column of a.
InRange(a, i) == i + 1 <= Len(a)

\* __init__: the instance keeps the five models; evolve adds states and obs.
Constructed(s) ==
    [F |-> s.F, Q |-> s.Q, H |-> s.H, R |-> s.R, u |-> s.u, states |-> 0, obs |-> 0]

InitWith(systems, n) ==
    /\ \E s \in systems : self = Constructed(s)
    /\ budget = n
    /\ heap = <<>>
    /\ frames = [t \in Threads |-> IdleFrame]
    /\ held = <<>>
    /\ predicted = <<>>
    /\ calls = 0

Init == InitWith(Systems, MaxCalls)

Idle(t) == frames[t].pc = "idle"
CanCall(t) == Idle(t) /\ calls < budget

\* ------------------------------------------------------------ evolve
\* A buffer that is allocated once and written again by the next call.
np_empty_reuse(h, N) ==
    IF h = <<>> THEN [heap |-> <<ToSeq([c \in 1..N |-> Uninit], N)>>, ref |-> 1]
    ELSE [heap |-> [h EXCEPT ![Len(h)] = ToSeq([c \in 1..N |-> Uninit], N)],
          ref |-> Len(h)]

\* np.empty((n,N)): a new array of N columns, none of them written.
np_empty(h, N) ==
    [heap |-> Append(h, ToSeq([c \in 1..N |-> Uninit], N)), ref |-> Len(h) + 1]

\* self.F @ x0 + self.u + state_noise
EvolveState(s, x0, state_noise) == VAdd(VAdd(MatVec(s.F, x0), s.u), state_noise)
\* The observation taken of the state just computed, not of the previous one.
EvolveObsOfNewState(s, x0, obs_noise) ==
    VAdd(MatVec(s.H, VAdd(MatVec(s.F, x0), s.u)), obs_noise)

\* self.H @ x0 + obs_noise
EvolveObs(s, x0, obs_noise) == VAdd(MatVec(s.H, x0), obs_noise)

\* The values a read of the local x0 may yield: the argument, or, once x0
\* is the view self.states[:,i], what that column holds when it is read.
ReadX0(t) ==
    LET v == frames[t].x0
    IN  IF ~v.view THEN {v.val}
        ELSE IF Col(heap[v.ref], v.col) = Uninit THEN Garbage
        ELSE {Col(heap[v.ref], v.col)}

\* The loop head "for i in range(1,N)": the body at index i, or the return.
LoopHead(i, N, body, after) == IF i < N THEN body ELSE after

CallEvolve(t) ==
    /\ CanCall(t)
    /\ \E x0 \in Xs, N \in 1..MaxN :
          frames' = [frames EXCEPT ![t] =
              [IdleFrame EXCEPT !.op = "evolve", !.pc = "L50", !.x = x0, !.k = N,
                                !.x0 = [NoView EXCEPT !.val = x0]]]
    /\ calls' = calls + 1
    /\ UNCHANGED <<self, heap, held, predicted, budget>>

\* self.states = np.empty((n,N))
EvolveL50(t) ==
    /\ frames[t].pc = "L50"
    /\ LET a == np_empty(heap, frames[t].k)
       IN  /\ heap' = a.heap
           /\ self' = [self EXCEPT !.states = a.ref]
    /\ frames' = [frames EXCEPT ![t].pc = "L51"]
    /\ UNCHANGED <<held, predicted, calls, budget>>

\* self.obs = np.empty((2,N))
EvolveL51(t) ==
    /\ frames[t].pc = "L51"
    /\ LET a == np_empty(heap, frames[t].k)
       IN  /\ heap' = a.heap
           /\ self' = [self EXCEPT !.obs = a.ref]
    /\ frames' = [frames EXCEPT ![t].pc = "L52"]
    /\ UNCHANGED <<held, predicted, calls, budget>>

\* self.states[:,0] = x0
EvolveL52(t) ==
    /\ frames[t].pc = "L52"
    /\ \E v \in ReadX0(t) :
          heap' = [heap EXCEPT ![self.states] = SetCol(@, 0, v)]
    /\ frames' = [frames EXCEPT ![t].pc = "L53"]
    /\ UNCHANGED <<self, held, predicted, calls, budget>>

\* self.obs[:,0] = x0[:2]; then the loop head with i = 1
EvolveL53(t) ==
    /\ frames[t].pc = "L53"
    /\ \E v \in ReadX0(t) :
          heap' = [heap EXCEPT ![self.obs] = SetCol(@, 0, SubSeq(v, 1, ObsDim))]
    /\ frames' = [frames EXCEPT ![t].i = 1,
                                ![t].pc = LoopHead(1, frames[t].k, "L57", "L65")]
    /\ UNCHANGED <<self, held, predicted, calls, budget>>

\* state_noise = multivariate_normal(zeros(4), Q)
\* self.states[:,i] = self.F @ x0 + self.u + state_noise
EvolveL57(t) ==
    /\ frames[t].pc = "L57"
    /\ \E state_noise \in NoiseSupport(self.Q, StateNoises), v \in ReadX0(t) :
          LET f == frames[t]
              drawn == [f EXCEPT !.draws = Append(@, state_noise)]
          IN  IF InRange(heap[self.states], f.i)
              THEN /\ heap' = [heap EXCEPT ![self.states] =
                                  SetCol(@, f.i, EvolveState(self, v, state_noise))]
                   /\ frames' = [frames EXCEPT ![t] = [drawn EXCEPT !.pc = "L59"]]
              ELSE \* IndexError: the array bound to self.states has no column i
                   /\ heap' = heap
                   /\ frames' = [frames EXCEPT ![t] = [drawn EXCEPT !.pc = "error"]]
    /\ UNCHANGED <<self, held, predicted, calls, budget>>

\* obs_noise = multivariate_normal(zeros(2), R)
\* self.obs[:,i] = self.H @ x0 + obs_noise
EvolveL59(t) ==
    /\ frames[t].pc = "L59"
    /\ \E obs_noise \in NoiseSupport(self.R, ObsNoises), v \in ReadX0(t) :
          LET f == frames[t]
              drawn == [f EXCEPT !.draws = Append(@, obs_noise)]
          IN  IF InRange(heap[self.obs], f.i)
              THEN /\ heap' = [heap EXCEPT ![self.obs] =
                                  SetCol(@, f.i, EvolveObs(self, v, obs_noise))]
                   /\ frames' = [frames EXCEPT ![t] = [drawn EXCEPT !.pc = "L63"]]
              ELSE /\ heap' = heap
                   /\ frames' = [frames EXCEPT ![t] = [drawn EXCEPT !.pc = "error"]]
    /\ UNCHANGED <<self, held, predicted, calls, budget>>

\* x0 = self.states[:,i]: a view of the column, not a copy; then the loop head
EvolveL63(t) ==
    /\ frames[t].pc = "L63"
    /\ LET f == frames[t]
       IN  IF InRange(heap[self.states], f.i)
           THEN frames' = [frames EXCEPT ![t] =
                    [f EXCEPT !.x0 = [view |-> TRUE, val |-> <<>>,
                                      ref |-> self.states, col |-> f.i],
                              !.i = f.i + 1,
                              !.pc = LoopHead(f.i + 1, f.k, "L57", "L65")]]
           ELSE frames' = [frames EXCEPT ![t].pc = "error"]
    /\ UNCHANGED <<self, heap, held, predicted, calls, budget>>

\* return self.states, self.obs
EvolveL65(t) ==
    /\ frames[t].pc = "L65"
    /\ frames' = [frames EXCEPT ![t].pc = "done",
                                ![t].ret = [NoResult EXCEPT !.states = self.states,
                                                            !.obs = self.obs]]
    /\ UNCHANGED <<self, heap, held, predicted, calls, budget>>

Evolve(t) ==
    \/ CallEvolve(t)
    \/ EvolveL50(t)
    \/ EvolveL51(t)
    \/ EvolveL52(t)
    \/ EvolveL53(t)
    \/ EvolveL57(t)
    \/ EvolveL59(t)
    \/ EvolveL63(t)
    \/ EvolveL65(t)

\* ---------------------------------------------------------- estimate
\* np.zeros((n,N)) with column 0 set to x
ZerosWithFirst(n, N, x) == ToSeq([c \in 1..N |-> IF c = 1 THEN x ELSE ZeroVec(n)], N)

\* self.F @ out[:,i-1] + self.u
PredictedState(s, x) == VAdd(MatVec(s.F, x), s.u)
\* P1 = self.F @ P0 @ self.F.T + self.Q
PredictedCov(s, P0) == MAdd(MatMul(MatMul(s.F, P0), Transpose(s.F)), s.Q)
\* The norm of the covariance before the predict step.
AppendNormOfP0(norms, P0, P1) == Append(norms, norm(P0))

\* norms.append(norm(P1)), between the predict and the update of P0
AppendNorm(norms, P0, P1) == Append(norms, norm(P1))
\* y = z[:,i] - self.H @ out[:,i]
Innovation(s, zi, x) == VSub(zi, MatVec(s.H, x))
\* S = self.H @ P1 @ self.H.T + self.R
InnovationCov(s, P1) == MAdd(MatMul(MatMul(s.H, P1), Transpose(s.H)), s.R)
\* A zero gain in place of the exception.
GainDefault(s, P1, S) ==
    IF Singular(S)
    THEN [raised |-> FALSE,
          K |-> ToSeq([r \in 1..Rows(P1) |-> ZeroVec(Rows(s.H))], Rows(P1))]
    ELSE [raised |-> FALSE, K |-> MatMul(MatMul(P1, Transpose(s.H)), inv(S))]

\* K = P1 @ self.H.T @ inv(S), where inv(S) raises LinAlgError on a
\* singular S: the gain, or the exception.
Gain(s, P1, S) ==
    IF Singular(S) THEN [raised |-> TRUE, K |-> <<>>]
    ELSE [raised |-> FALSE, K |-> MatMul(MatMul(P1, Transpose(s.H)), inv(S))]
\* The control vector added in the update as well.
UpdatedStateControlTwice(s, x, K, y) == VAdd(VAdd(x, MatVec(K, y)), s.u)

\* out[:,i] + K @ y
UpdatedState(s, x, K, y) == VAdd(x, MatVec(K, y))
\* P0 = (np.eye(n) - K @ self.H) @ P1
UpdatedCov(s, K, P1) == MatMul(MSub(Eye(Rows(P1)), MatMul(K, s.H)), P1)

CallEstimate(t) ==
    /\ CanCall(t)
    /\ \E x0 \in Xs, P0 \in P0s, N \in 1..MaxN :
          \E z \in Zs(N) :
             frames' = [frames EXCEPT ![t] =
                 [IdleFrame EXCEPT !.op = "estimate", !.pc = "L90",
                                   !.x = x0, !.P = P0, !.z = z, !.k = N]]
    /\ calls' = calls + 1
    /\ UNCHANGED <<self, heap, held, predicted, budget>>

\* n = len(x0); N = z.shape[1]; out = np.zeros((n,N)); out[:,0] = x0
\* norms = [norm(P0)]; then the loop head with i = 1
EstimateL90(t) ==
    /\ frames[t].pc = "L90"
    /\ LET f == frames[t]
           N == Len(f.z)
       IN  frames' = [frames EXCEPT ![t] =
               [f EXCEPT !.out = ZerosWithFirst(Len(f.x), N, f.x),
                         !.P0 = f.P,
                         !.covs = <<f.P>>,
                         !.norms = <<norm(f.P)>>,
                         !.i = 1,
                         !.pc = LoopHead(1, N, "L100", "L111")]]
    /\ UNCHANGED <<self, heap, held, predicted, calls, budget>>

\* Predict: out[:,i] = F @ out[:,i-1] + u; P1 = F @ P0 @ F.T + Q;
\* norms.append(norm(P1))
EstimateL100(t) ==
    /\ frames[t].pc = "L100"
    /\ LET f == frames[t]
           P1 == PredictedCov(self, f.P0)
       IN  frames' = [frames EXCEPT ![t] =
               [f EXCEPT !.out = SetCol(@, f.i, PredictedState(self, Col(f.out, f.i - 1))),
                         !.P1 = P1,
                         !.norms = AppendNorm(@, f.P0, P1),
                         !.pc = "L105"]]
    /\ UNCHANGED <<self, heap, held, predicted, calls, budget>>

\* Update: y, S, K = P1 @ H.T @ inv(S); out[:,i] = out[:,i] + K @ y;
\* P0 = (eye(n) - K @ H) @ P1; then the loop head.  inv(S) raises on a
\* singular S, and the exception leaves the call.
EstimateL105(t) ==
    /\ frames[t].pc = "L105"
    /\ LET f == frames[t]
           y == Innovation(self, Col(f.z, f.i), Col(f.out, f.i))
           S == InnovationCov(self, f.P1)
           g == Gain(self, f.P1, S)
       IN  IF g.raised
           THEN frames' = [frames EXCEPT ![t].pc = "error"]
           ELSE LET K == g.K
                IN  frames' = [frames EXCEPT ![t] =
                        [f EXCEPT !.out = SetCol(@, f.i, UpdatedState(self, Col(f.out, f.i), K, y)),
                                  !.P0 = UpdatedCov(self, K, f.P1),
                                  !.covs = Append(@, UpdatedCov(self, K, f.P1)),
                                  !.i = f.i + 1,
                                  !.pc = LoopHead(f.i + 1, Len(f.z), "L100", "L111")]]
    /\ UNCHANGED <<self, heap, held, predicted, calls, budget>>

\* return out, norms
EstimateL111(t) ==
    /\ frames[t].pc = "L111"
    /\ frames' = [frames EXCEPT ![t].pc = "done",
                                ![t].ret = [NoResult EXCEPT !.out = frames[t].out,
                                                            !.norms = frames[t].norms]]
    /\ UNCHANGED <<self, heap, held, predicted, calls, budget>>

Estimate(t) ==
    \/ CallEstimate(t)
    \/ EstimateL90(t)
    \/ EstimateL100(t)
    \/ EstimateL105(t)
    \/ EstimateL111(t)

\* ----------------------------------------------------------- predict
\* The transition without the control vector.
PredictStepNoControl(s, x) == MatVec(s.F, x)

\* self.F @ out[:,i-1] + self.u
PredictStep(s, x) == VAdd(MatVec(s.F, x), s.u)

CallPredict(t) ==
    /\ CanCall(t)
    /\ \E x \in Xs, k \in 1..MaxN :
          frames' = [frames EXCEPT ![t] =
              [IdleFrame EXCEPT !.op = "predict", !.pc = "L131", !.x = x, !.k = k]]
    /\ calls' = calls + 1
    /\ UNCHANGED <<self, heap, held, predicted, budget>>

\* n = len(x); out = np.zeros((n,k)); out[:,0] = x; then the loop head
PredictL131(t) ==
    /\ frames[t].pc = "L131"
    /\ LET f == frames[t]
       IN  frames' = [frames EXCEPT ![t] =
               [f EXCEPT !.out = ZerosWithFirst(Len(f.x), f.k, f.x),
                         !.i = 1,
                         !.pc = LoopHead(1, f.k, "L137", "L139")]]
    /\ UNCHANGED <<self, heap, held, predicted, calls, budget>>

\* out[:,i] = self.F @ out[:,i-1] + self.u; then the loop head
PredictL137(t) ==
    /\ frames[t].pc = "L137"
    /\ LET f == frames[t]
       IN  frames' = [frames EXCEPT ![t] =
               [f EXCEPT !.out = SetCol(@, f.i, PredictStep(self, Col(f.out, f.i - 1))),
                         !.i = f.i + 1,
                         !.pc = LoopHead(f.i + 1, f.k, "L137", "L139")]]
    /\ UNCHANGED <<self, heap, held, predicted, calls, budget>>

\* return out
PredictL139(t) ==
    /\ frames[t].pc = "L139"
    /\ frames' = [frames EXCEPT ![t].pc = "done",
                                ![t].ret = [NoResult EXCEPT !.out = frames[t].out]]
    /\ UNCHANGED <<self, heap, held, predicted, calls, budget>>

Predict(t) ==
    \/ CallPredict(t)
    \/ PredictL131(t)
    \/ PredictL137(t)
    \/ PredictL139(t)

\* ------------------------------------------------------------ rewind
\* The control vector taken off after the inverse, not before.
RewindStepControlAfter(s, x) ==
    IF Singular(s.F) THEN [raised |-> TRUE, col |-> <<>>]
    ELSE [raised |-> FALSE, col |-> VSub(MatVec(inv(s.F), x), s.u)]
\* The control vector added, not taken off.
RewindStepControlAdded(s, x) ==
    IF Singular(s.F) THEN [raised |-> TRUE, col |-> <<>>]
    ELSE [raised |-> FALSE, col |-> MatVec(inv(s.F), VAdd(x, s.u))]
\* A zero column in place of the exception.
RewindStepDefault(s, x) ==
    IF Singular(s.F) THEN [raised |-> FALSE, col |-> ZeroVec(Len(x))]
    ELSE [raised |-> FALSE, col |-> MatVec(inv(s.F), VSub(x, s.u))]

\* inv(self.F) @ (out[:,i-1] - self.u), where inv(self.F) raises
\* LinAlgError on a singular F: the column, or the exception.
RewindStep(s, x) ==
    IF Singular(s.F) THEN [raised |-> TRUE, col |-> <<>>]
    ELSE [raised |-> FALSE, col |-> MatVec(inv(s.F), VSub(x, s.u))]

\* The states the caller may rewind from: any state, or the last column of
\* a prediction it has kept.
RewindFrom == Xs \cup {p.out[Len(p.out)] : p \in {predicted[j] : j \in 1..Len(predicted)}}

CallRewind(t) ==
    /\ CanCall(t)
    /\ \E x \in RewindFrom, k \in 1..MaxN :
          frames' = [frames EXCEPT ![t] =
              [IdleFrame EXCEPT !.op = "rewind", !.pc = "L157", !.x = x, !.k = k]]
    /\ calls' = calls + 1
    /\ UNCHANGED <<self, heap, held, predicted, budget>>

\* n = len(x); out = np.zeros((n,k)); out[:,0] = x; then the loop head
RewindL157(t) ==
    /\ frames[t].pc = "L157"
    /\ LET f == frames[t]
       IN  frames' = [frames EXCEPT ![t] =
               [f EXCEPT !.out = ZerosWithFirst(Len(f.x), f.k, f.x),
                         !.i = 1,
                         !.pc = LoopHead(1, f.k, "L163", "L165")]]
    /\ UNCHANGED <<self, heap, held, predicted, calls, budget>>

\* out[:,i] = inv(self.F) @ (out[:,i-1] - self.u); then the loop head.
\* inv raises on a singular F, and the exception leaves the call.
RewindL163(t) ==
    /\ frames[t].pc = "L163"
    /\ LET f == frames[t]
           r == RewindStep(self, Col(f.out, f.i - 1))
       IN  IF r.raised
           THEN frames' = [frames EXCEPT ![t].pc = "error"]
           ELSE frames' = [frames EXCEPT ![t] =
                    [f EXCEPT !.out = SetCol(@, f.i, r.col),
                              !.i = f.i + 1,
                              !.pc = LoopHead(f.i + 1, f.k, "L163", "L165")]]
    /\ UNCHANGED <<self, heap, held, predicted, calls, budget>>

\* return out
RewindL165(t) ==
    /\ frames[t].pc = "L165"
    /\ frames' = [frames EXCEPT ![t].pc = "done",
                                ![t].ret = [NoResult EXCEPT !.out = frames[t].out]]
    /\ UNCHANGED <<self, heap, held, predicted, calls, budget>>

Rewind(t) ==
    \/ CallRewind(t)
    \/ RewindL157(t)
    \/ RewindL163(t)
    \/ RewindL165(t)

\* ------------------------------------------------------------ caller
\* The call has returned or raised: the caller takes what it returned (the
\* two arrays of evolve by reference, with a note of what they held then)
\* and the frame is gone.
Collect(t) ==
    /\ frames[t].pc \in {"done", "error"}
    /\ LET f == frames[t]
       IN  /\ held' = IF f.op = "evolve" /\ f.pc = "done"
                      THEN Append(held, [states |-> f.ret.states, obs |-> f.ret.obs,
                                         statesThen |-> heap[f.ret.states],
                                         obsThen |-> heap[f.ret.obs]])
                      ELSE held
           /\ predicted' = IF f.op = "predict" /\ f.pc = "done"
                           THEN Append(predicted, [x |-> f.x, k |-> f.k, out |-> f.ret.out])
                           ELSE predicted
    /\ frames' = [frames EXCEPT ![t] = IdleFrame]
    /\ UNCHANGED <<self, heap, calls, budget>>

Step(t) ==
    \/ Evolve(t)
    \/ Estimate(t)
    \/ Predict(t)
    \/ Rewind(t)
    \/ Collect(t)

\* A single-threaded program: one call after another.
Next == Step(Main)
Spec == Init /\ [][Next]_vars

\* A program of one call on the instance as constructed.
InitCall == InitWith(Systems, CallsOfOne)
SpecCall == InitCall /\ [][Next]_vars

\* Calls from several threads on the one instance, interleaved statement by
\* statement.
InitConc == InitWith({Projectile}, MaxCalls)
NextConc == \E t \in Threads : Step(t)
SpecConc == InitConc /\ [][NextConc]_vars

\* ------------------------------------------------------------ claims
\* The textbook filter, step by step, for stating what estimate returns.
\* The predicted covariance F P F^T + Q of a step that starts from P.
PPred(s, P) == MAdd(MatMul(MatMul(s.F, P), Transpose(s.F)), s.Q)
\* The innovation covariance H P_pred H^T + R.
SOf(s, Ppred) == MAdd(MatMul(MatMul(s.H, Ppred), Transpose(s.H)), s.R)
\* The gain P_pred H^T S^-1.
KOf(s, Ppred) == MatMul(MatMul(Ppred, Transpose(s.H)), inv(SOf(s, Ppred)))
Returned(t, op) == frames[t].op = op /\ frames[t].pc = "done"
Raised(t, op) == frames[t].op = op /\ frames[t].pc = "error"

\* What a completed estimate call returns as its trajectory, and the
\* covariance it carries from step to step: covs[i] is the value of the
\* local P0 when step i begins.
EstimateTrajectory(t) ==
    LET f == frames[t]
        N == Len(f.z)
        out == f.ret.out
    IN  /\ Returned(t, "estimate") =>
              /\ Len(out) = N
              /\ out[1] = f.x
              /\ Len(f.covs) = N
              /\ f.covs[1] = f.P
              /\ \A i \in 1..(N - 1) :
                    LET Ppred == PPred(self, f.covs[i])
                        K == KOf(self, Ppred)
                        xpred == VAdd(MatVec(self.F, out[i]), self.u)
                        y == VSub(f.z[i + 1], MatVec(self.H, xpred))
                    IN  /\ out[i + 1] = VAdd(xpred, MatVec(K, y))
                        /\ f.covs[i + 1] =
                               MatMul(MSub(Eye(StateDim), MatMul(K, self.H)), Ppred)
        /\ (f.op = "estimate" /\ f.pc \in {"L100", "L105", "L111", "done", "error"}) =>
              f.P0 = f.covs[Len(f.covs)]

\* What a completed estimate call returns as its norms.
EstimateNorms(t) ==
    LET f == frames[t]
        N == Len(f.z)
        norms == f.ret.norms
    IN  Returned(t, "estimate") =>
            /\ Len(norms) = N
            /\ norms[1] = [sqrt |-> SumSq(f.P)]
            /\ f.covs[1] = f.P
            /\ \A i \in 1..(N - 1) :
                  norms[i + 1] = [sqrt |-> SumSq(PPred(self, f.covs[i]))]

\* What a completed evolve call returns: e_i and d_i are the two draws of
\* step i, in the order they were drawn.
EvolveTrajectories(t) ==
    LET f == frames[t]
        N == f.k
    IN  Returned(t, "evolve") =>
            LET states == heap[f.ret.states]
                obs == heap[f.ret.obs]
            IN  /\ Len(states) = N
                /\ Len(obs) = N
                /\ states[1] = f.x
                /\ obs[1] = <<f.x[1], f.x[2]>>
                /\ Len(f.draws) = 2 * (N - 1)
                /\ \A i \in 1..(N - 1) :
                      LET e == f.draws[2 * i - 1]
                          d == f.draws[2 * i]
                          step == VAdd(MatVec(self.F, states[i]), self.u)
                      IN  /\ states[i + 1] = VAdd(step, e)
                          /\ obs[i + 1] = VAdd(MatVec(self.H, states[i]), d)
                          /\ self.Q = ZeroMat(StateDim) => states[i + 1] = step

\* What a completed predict call returns.
PredictTrajectory(t) ==
    LET f == frames[t]
        out == f.ret.out
    IN  Returned(t, "predict") =>
            /\ Len(out) = f.k
            /\ out[1] = f.x
            /\ \A i \in 1..(f.k - 1) : out[i + 1] = VAdd(MatVec(self.F, out[i]), self.u)

\* What a completed rewind call returns: each column is the state one step
\* before the column to its left.
RewindTrajectory(t) ==
    LET f == frames[t]
        out == f.ret.out
    IN  Returned(t, "rewind") =>
            /\ Len(out) = f.k
            /\ out[1] = f.x
            /\ \A i \in 1..(f.k - 1) : VAdd(MatVec(self.F, out[i + 1]), self.u) = out[i]

\* C1: a completed estimate call returns N columns, column 0 the initial
\* estimate and column i the predicted state F x + u corrected by the gain
\* times the innovation, the gain being computed from the covariance carried
\* from step i-1, which is (I - K H) P_pred; u enters once per step.
C1_EstimateRecursion == \A t \in Threads : EstimateTrajectory(t)

\* An estimate call of three columns has returned, and the gain moved its
\* last column away from the bare prediction.
C1_Witness ==
    /\ Returned(Main, "estimate")
    /\ Len(frames[Main].z) = 3
    /\ frames[Main].ret.out[3] #
           VAdd(MatVec(self.F, frames[Main].ret.out[2]), self.u)
    /\ frames[Main].P0 # frames[Main].P

\* C2: rewinding k columns from the last column of a k-column prediction of
\* x ends at x.
C2_RoundTrip ==
    \A t \in Threads : \A j \in 1..Len(predicted) :
        LET f == frames[t]
            p == predicted[j]
        IN  (Returned(t, "rewind") /\ f.x = p.out[p.k] /\ f.k = p.k) =>
                f.ret.out[f.k] = p.x

\* A rewind of three columns from the end of a kept three-column prediction
\* has returned, on a system whose control vector and transition both act.
C2_Witness ==
    /\ Returned(Main, "rewind")
    /\ Len(predicted) = 1
    /\ predicted[1].k = 3
    /\ frames[Main].k = 3
    /\ frames[Main].x = predicted[1].out[3]
    /\ frames[Main].x # predicted[1].x
    /\ self.F = FDouble

\* C3: a completed evolve call returns two arrays of N columns, the states
\* starting at x0 and the observations at the first two components of x0;
\* state i is F state(i-1) + u plus the state noise of step i, observation i
\* is H state(i-1), the previous state, plus the observation noise of step
\* i; without state noise state i is exactly F state(i-1) + u.
C3_EvolveTrajectories == \A t \in Threads : EvolveTrajectories(t)

\* An evolve call of three columns has returned on an instance that had
\* run evolve before, with noise drawn, where observing the new state
\* instead of the previous one would have given another observation, and
\* H x0 is not the first two components of x0.
C3_Witness ==
    /\ Returned(Main, "evolve")
    /\ Len(held) = 1
    /\ frames[Main].k = 3
    /\ frames[Main].draws[3] # ZeroVec(StateDim)
    /\ frames[Main].draws[4] # ZeroVec(ObsDim)
    /\ heap[frames[Main].ret.obs][3] #
           VAdd(MatVec(self.H, heap[frames[Main].ret.states][3]), frames[Main].draws[4])
    /\ heap[frames[Main].ret.obs][1] # MatVec(self.H, frames[Main].x)

\* C4: whatever the interleaving of concurrent calls, each call returns
\* what it returns when run alone on its inputs and its noise draws.
C4_InterleavingFree ==
    \A t \in Threads :
        /\ EvolveTrajectories(t)
        /\ EstimateTrajectory(t)
        /\ EstimateNorms(t)
        /\ PredictTrajectory(t)
        /\ RewindTrajectory(t)
        /\ ~Raised(t, "evolve")

C9_EstimateSingular ==
    \A t \in Threads :
        LET f == frames[t]
            N == Len(f.z)
            SingularAt(i) == Singular(SOf(self, PPred(self, f.covs[i])))
        IN  /\ Returned(t, "estimate") => \A i \in 1..(N - 1) : ~SingularAt(i)
            /\ Raised(t, "estimate") =>
                  /\ f.i \in 1..(N - 1)
                  /\ Len(f.covs) = f.i
                  /\ \A i \in 1..(f.i - 1) : ~SingularAt(i)
                  /\ SingularAt(f.i)
                  /\ f.ret = NoResult
                  /\ f.P0 = f.covs[f.i]
                  /\ Len(f.norms) = f.i + 1
                  /\ f.out[f.i + 1] = VAdd(MatVec(self.F, f.out[f.i]), self.u)
                  /\ \A c \in (f.i + 2)..N : f.out[c] = ZeroVec(StateDim)
            /\ (f.op = "estimate" /\ f.pc \in {"L100", "L105"}) =>
                  /\ Len(f.covs) = f.i
                  /\ \A i \in 1..(f.i - 1) : ~SingularAt(i)

\* An estimate call has raised at its second step, after a first step
\* that updated.
C9_Witness ==
    /\ Raised(Main, "estimate")
    /\ frames[Main].i = 2
    /\ Len(frames[Main].z) = 3

\* C10: the arrays an evolve call returned hold, after any later calls,
\* what they held when they were returned.
C10_ReturnedStay ==
    \A j \in 1..Len(held) :
        /\ heap[held[j].states] = held[j].statesThen
        /\ heap[held[j].obs] = held[j].obsThen

\* A later evolve call has returned other arrays with other values, and the
\* instance no longer names those of the earlier call.
C10_Witness ==
    /\ Len(held) = 1
    /\ Returned(Main, "evolve")
    /\ frames[Main].ret.states # held[1].states
    /\ self.states # held[1].states
    /\ Len(heap[frames[Main].ret.states]) = Len(held[1].statesThen)
    /\ heap[frames[Main].ret.states] # held[1].statesThen
====
